---- MODULE Spec2Model ----
(***************************************************************************)
(* Model of the beehive example (scarab_examples/beehive/beehive.py):      *)
(* the entities Bee, Beehive, OutsideTemperature and BeehiveDisplayModel   *)
(* and their event handlers.  A handler that raises keeps the assignments  *)
(* it made before the raise; the exception is recorded in `raised`.        *)
(*                                                                         *)
(* Temperatures of the Beehive are exact rationals, stored as integers in  *)
(* units of 1/Scale degree; Scale is chosen so that every product with .2  *)
(* made while the clock runs from 0 to MaxTime is exact.                   *)
(***************************************************************************)
EXTENDS Integers, FiniteSets, Sequences, TLC

\* ---------------------------------------------------------------- bounds
MaxGuid == 2        \* bee guids are 1..MaxGuid
MaxCreates == 3     \* bee-created notifications in a recorded history
MaxDestroys == 2    \* bee-destroyed notifications in a recorded history
MaxTime == 2        \* simulation times are 0..MaxTime
MaxBeeTemp == 3     \* a Bee's thresholds and the hive temperatures it sees: -MaxBeeTemp..MaxBeeTemp
MaxHalfDays == 2    \* OutsideTemperature is asked for times around 0..MaxHalfDays half days
MaxOffset == 0      \* ... and up to MaxOffset minutes after each
MaxBuilt == 3       \* Bees constructed in a history of constructions
MaxSteps == 102     \* --max_steps is 1..MaxSteps
MaxNumberBees == 6  \* --number_bees and the 'Number bees' field are up to MaxNumberBees
MaxCalls == 8       \* calls the GUI makes on the simulation in a recorded history

RECURSIVE Pow(_, _)
Pow(b, n) == IF n = 0 THEN 1 ELSE b * Pow(b, n - 1)

\* one degree, in the unit the Beehive's temperatures are stored in
Scale == 4 * Pow(5, MaxTime)

Guids == 1..MaxGuid
Times == 0..MaxTime

\* ------------------------------------------------------------ exceptions
NoError == "none"
AssertionError == "AssertionError"
KeyError == "KeyError"
ValueError == "ValueError"

\* ------------------------------------------------------------- snapshots
\* The copy of a Bee a notification carries: its two flags, as
\* Bee.handle_temperature_change can leave them.
BeeSnapshot(b, f) == [is_buzzing |-> b, is_fanning |-> f]
IdleBee == BeeSnapshot(FALSE, FALSE)
BuzzingBee == BeeSnapshot(TRUE, FALSE)
FanningBee == BeeSnapshot(FALSE, TRUE)
BeeSnapshots == {IdleBee, BuzzingBee, FanningBee}

VARIABLES
    \* Beehive
    current_temp, outside_temp, buzzing_impact, fanning_impact,
    number_bees, number_bees_buzzing, number_bees_fanning, known_bees,
    \* the exception the handler that ran last raised
    raised,
    \* Bee
    buzz_temp, fan_temp, is_buzzing, is_fanning,
    \* the hive temperature of the last notification the Bee took a temperature from
    seen_temp,
    \* the number of Bees the constructor has yielded
    built,
    \* OutsideTemperature
    min_temp, max_temp, ot_current_temp,
    \* whether the time update last delivered to the OutsideTemperature was stale
    \* (new_time <= previous_time)
    ot_stale,
    \* the new_time of the time update last delivered to the OutsideTemperature
    \* (-1 before the first), and, where the history is recorded, the
    \* current_temp it had after the first time update to each new_time
    ot_new_time, ot_seen,
    \* BeehiveDisplayModel: previous_time, new_time, beehive, outside_temp and
    \* the ten bounds
    dm_previous_time, dm_new_time, dm_beehive, dm_outside_temp,
    min_outside_temp, max_outside_temp, min_hive_temp, max_hive_temp,
    min_number_bees, max_number_bees, min_number_bees_buzzing,
    max_number_bees_buzzing, min_number_bees_fanning, max_number_bees_fanning,
    \* where the history is recorded: the hive temperatures and the outside
    \* temperatures the display model has been shown
    shown_hive_temps, shown_outside_temps,
    \* the command-line driver: its arguments --max_steps and --number_bees,
    \* where it is in main, the loop variable step, the steps it has passed to
    \* advance_and_wait in all, the entities it has added to the simulation
    max_steps, cli_number_bees, cli_pc, step, advanced, cli_entities,
    \* the GUI: the text of the start/pause button, the text of the 'Number
    \* bees' field, whether the window is open, the calls made so far, the
    \* entities added to the simulation
    button_text, number_bees_edit, window_open, gui_calls, gui_entities,
    \* the simulation of several Bees: the Bee entities by guid; the guids
    \* whose bee-created notification the Beehive is still to get, the guids
    \* still to get the beehive-changed notification of the last time update,
    \* and the guids whose bee-changed notification the Beehive is still to get
    colony, to_create, to_bees, to_hive,
    \* the scheduler's clock
    now,
    \* history, in the specifications that record it: the notification
    \* delivered last, the bee notifications delivered to the Beehive
    last, creates, destroys, violations

hiveVars == <<current_temp, outside_temp, buzzing_impact, fanning_impact,
              number_bees, number_bees_buzzing, number_bees_fanning, known_bees>>
histVars == <<last, creates, destroys, violations>>
beeVars == <<buzz_temp, fan_temp, is_buzzing, is_fanning, seen_temp, built>>
otVars == <<min_temp, max_temp, ot_current_temp, ot_stale, ot_new_time, ot_seen>>
dmTimes == <<dm_previous_time, dm_new_time>>
dmHiveBounds == <<min_hive_temp, max_hive_temp, min_number_bees, max_number_bees,
                  min_number_bees_buzzing, max_number_bees_buzzing,
                  min_number_bees_fanning, max_number_bees_fanning>>
dmOutsideBounds == <<min_outside_temp, max_outside_temp>>
dmShown == <<shown_hive_temps, shown_outside_temps>>
dmVars == <<dmTimes, dm_beehive, dm_outside_temp, dmHiveBounds, dmOutsideBounds, dmShown>>
cliVars == <<max_steps, cli_number_bees, cli_pc, step, advanced, cli_entities>>
guiVars == <<button_text, number_bees_edit, window_open, gui_calls, gui_entities>>
simVars == <<colony, to_create, to_bees, to_hive>>
appVars == <<cliVars, guiVars, simVars>>
vars == <<hiveVars, beeVars, otVars, dmVars, raised, now, histVars, appVars>>

\* ---------------------------------------------------------------- Beehive
\* Beehive.__init__
Beehive_init(start_temp, buzz_imp, fan_imp) ==
    /\ current_temp = start_temp
    /\ outside_temp = start_temp
    /\ buzzing_impact = buzz_imp
    /\ fanning_impact = fan_imp
    /\ number_bees = 0
    /\ number_bees_buzzing = 0
    /\ number_bees_fanning = 0
    /\ known_bees = <<>>

\* Beehive.get_number_bees_buzzing
get_number_bees_buzzing ==
    Cardinality({g \in DOMAIN known_bees : known_bees[g].is_buzzing})

\* Beehive.get_number_bees_fanning
get_number_bees_fanning ==
    Cardinality({g \in DOMAIN known_bees : known_bees[g].is_fanning})

\* The outside reading a notification can carry (below the start
\* temperature), and the constructor arguments of the Beehive (those of
\* test_time_update).
OutsideReadings == {5 * Scale}
StartTemps == {10 * Scale}
Impacts == {<<Scale \div 2, Scale \div 4>>}

\* .2 * x, exact while x is a multiple of 5 units
Fifth(x) == x \div 5

\* Beehive_handle_outside_temperature_update moving the hive to the reading
\* at once
Beehive_handle_outside_temperature_update_Recompute(reading, changed_properties) ==
    /\ IF changed_properties = {}
       THEN /\ raised' = AssertionError
            /\ UNCHANGED <<outside_temp, current_temp>>
       ELSE /\ raised' = NoError
            /\ outside_temp' = reading
            /\ current_temp' = reading
    /\ UNCHANGED <<buzzing_impact, fanning_impact, number_bees,
                   number_bees_buzzing, number_bees_fanning, known_bees>>

\* Beehive.handle_outside_temperature_update
Beehive_handle_outside_temperature_update(reading, changed_properties) ==
    /\ IF changed_properties = {}
       THEN /\ raised' = AssertionError
            /\ UNCHANGED outside_temp
       ELSE /\ raised' = NoError
            /\ outside_temp' = reading
    /\ UNCHANGED <<current_temp, buzzing_impact, fanning_impact, number_bees,
                   number_bees_buzzing, number_bees_fanning, known_bees>>

\* TimeAssert with the comparison not strict
TimeAssert_NonStrict(previous_time, new_time) == new_time >= previous_time

\* the assertion that opens Beehive.handle_time_update
TimeAssert(previous_time, new_time) == new_time > previous_time

\* bee_impact with every tracked bee taken to buzz
bee_impact_AllBees ==
    (number_bees * buzzing_impact) - (get_number_bees_fanning * fanning_impact)

\* bee_impact of Beehive.handle_time_update
bee_impact ==
    (get_number_bees_buzzing * buzzing_impact) - (get_number_bees_fanning * fanning_impact)

\* total_bee_impact of Beehive.handle_time_update
total_bee_impact(previous_time, new_time) == bee_impact * (new_time - previous_time)

\* outside_temp_impact signed toward the outside temperature
outside_temp_impact_Signed ==
    IF outside_temp > current_temp
    THEN Fifth(outside_temp - current_temp)
    ELSE 0 - Fifth(current_temp - outside_temp)

\* outside_temp_impact of Beehive.handle_time_update
outside_temp_impact ==
    IF outside_temp > current_temp
    THEN Fifth(outside_temp - current_temp)
    ELSE Fifth(current_temp - outside_temp)

\* TempAfterTimeUpdate with the outside impact taken once per elapsed minute
TempAfterTimeUpdate_PerMinute(previous_time, new_time) ==
    current_temp + (outside_temp_impact * (new_time - previous_time))
        + total_bee_impact(previous_time, new_time)

\* the value Beehive.handle_time_update assigns to current_temp
TempAfterTimeUpdate(previous_time, new_time) ==
    current_temp + outside_temp_impact + total_bee_impact(previous_time, new_time)

\* Beehive_handle_time_update taking the new hive temperature for the
\* outside temperature as well
Beehive_handle_time_update_Settles(previous_time, new_time) ==
    /\ IF ~TimeAssert(previous_time, new_time)
       THEN /\ raised' = AssertionError
            /\ UNCHANGED <<current_temp, outside_temp>>
       ELSE /\ raised' = NoError
            /\ current_temp' = TempAfterTimeUpdate(previous_time, new_time)
            /\ outside_temp' = current_temp'
    /\ UNCHANGED <<buzzing_impact, fanning_impact, number_bees,
                   number_bees_buzzing, number_bees_fanning, known_bees>>

\* Beehive.handle_time_update
Beehive_handle_time_update(previous_time, new_time) ==
    /\ IF ~TimeAssert(previous_time, new_time)
       THEN /\ raised' = AssertionError
            /\ UNCHANGED current_temp
       ELSE /\ raised' = NoError
            /\ current_temp' = TempAfterTimeUpdate(previous_time, new_time)
    /\ UNCHANGED <<outside_temp, buzzing_impact, fanning_impact, number_bees,
                   number_bees_buzzing, number_bees_fanning, known_bees>>

\* number_bees_fanning after Beehive.handle_new_bee
FanningAfterNew(bee) ==
    IF bee.is_fanning THEN number_bees_fanning + 1 ELSE number_bees_fanning

\* BuzzingAfterNew testing the flag of the lines above it
BuzzingAfterNew_WrongFlag(bee) ==
    IF bee.is_fanning THEN number_bees_buzzing + 1 ELSE number_bees_buzzing

\* number_bees_buzzing after Beehive.handle_new_bee
BuzzingAfterNew(bee) ==
    IF bee.is_buzzing THEN number_bees_buzzing + 1 ELSE number_bees_buzzing

\* Beehive.handle_new_bee
Beehive_handle_new_bee(guid, bee) ==
    /\ raised' = NoError
    /\ number_bees' = number_bees + 1
    /\ known_bees' = (guid :> bee) @@ known_bees
    /\ number_bees_fanning' = FanningAfterNew(bee)
    /\ number_bees_buzzing' = BuzzingAfterNew(bee)
    /\ UNCHANGED <<current_temp, outside_temp, buzzing_impact, fanning_impact>>

\* self.__known_bees.pop(bee.guid): the mapping without the guid
Pop(guid) == [g \in DOMAIN known_bees \ {guid} |-> known_bees[g]]

\* number_bees after Beehive.handle_dead_bee, whether or not the pop raises
NumberBeesAfterDead(guid) == number_bees - 1

\* Beehive.handle_dead_bee
Beehive_handle_dead_bee(guid) ==
    /\ number_bees' = NumberBeesAfterDead(guid)
    /\ IF guid \notin DOMAIN known_bees
       THEN /\ raised' = KeyError
            /\ UNCHANGED <<known_bees, number_bees_fanning, number_bees_buzzing>>
       ELSE LET bee == known_bees[guid] IN
            /\ raised' = NoError
            /\ known_bees' = Pop(guid)
            /\ number_bees_fanning' = IF bee.is_fanning THEN number_bees_fanning - 1
                                      ELSE number_bees_fanning
            /\ number_bees_buzzing' = IF bee.is_buzzing THEN number_bees_buzzing - 1
                                      ELSE number_bees_buzzing
    /\ UNCHANGED <<current_temp, outside_temp, buzzing_impact, fanning_impact>>

\* PrevBee as self.__known_bees.get(bee.guid, <an idle bee>): never a KeyError
PrevBee_Default(guid) ==
    IF guid \in DOMAIN known_bees
    THEN [raises |-> NoError, value |-> known_bees[guid]]
    ELSE [raises |-> NoError, value |-> IdleBee]

\* self.__known_bees[bee.guid]: the tracked snapshot, or a KeyError
PrevBee(guid) ==
    IF guid \in DOMAIN known_bees
    THEN [raises |-> NoError, value |-> known_bees[guid]]
    ELSE [raises |-> KeyError, value |-> IdleBee]

\* FanningAfterUpdate without the decrement of a bee that stopped fanning
FanningAfterUpdate_NoDecrement(prev_bee, bee) ==
    IF bee.is_fanning /\ ~prev_bee.is_fanning
    THEN number_bees_fanning + 1 ELSE number_bees_fanning

\* number_bees_fanning after Beehive.handle_bee_update
FanningAfterUpdate(prev_bee, bee) ==
    LET dropped == IF prev_bee.is_fanning /\ ~bee.is_fanning
                   THEN number_bees_fanning - 1 ELSE number_bees_fanning
    IN  IF bee.is_fanning /\ ~prev_bee.is_fanning THEN dropped + 1 ELSE dropped

\* BuzzingAfterUpdate without the increment of a bee that started buzzing
BuzzingAfterUpdate_NoIncrement(prev_bee, bee) ==
    IF prev_bee.is_buzzing /\ ~bee.is_buzzing
    THEN number_bees_buzzing - 1 ELSE number_bees_buzzing

\* number_bees_buzzing after Beehive.handle_bee_update
BuzzingAfterUpdate(prev_bee, bee) ==
    LET dropped == IF prev_bee.is_buzzing /\ ~bee.is_buzzing
                   THEN number_bees_buzzing - 1 ELSE number_bees_buzzing
    IN  IF bee.is_buzzing /\ ~prev_bee.is_buzzing THEN dropped + 1 ELSE dropped

\* Beehive.handle_bee_update
Beehive_handle_bee_update(guid, bee, changed_properties) ==
    /\ IF changed_properties = {}
       THEN /\ raised' = AssertionError
            /\ UNCHANGED <<known_bees, number_bees_fanning, number_bees_buzzing>>
       ELSE LET lookup == PrevBee(guid)
                prev_bee == lookup.value
            IN
            IF lookup.raises = KeyError
            THEN /\ raised' = KeyError
                 /\ UNCHANGED <<known_bees, number_bees_fanning, number_bees_buzzing>>
            ELSE /\ raised' = NoError
                 /\ known_bees' = (guid :> bee) @@ known_bees
                 /\ number_bees_fanning' = FanningAfterUpdate(prev_bee, bee)
                 /\ number_bees_buzzing' = BuzzingAfterUpdate(prev_bee, bee)
    /\ UNCHANGED <<current_temp, outside_temp, buzzing_impact, fanning_impact,
                   number_bees>>

\* the changed_properties a bee-changed notification can list
BeeProperties == {{}, {"is_buzzing", "is_fanning"}}
\* the changed_properties an outside-temperature notification can list
OutsideProperties == {{}, {"current_temp"}}

\* ------------------------------------------------------------------- None
\* a field or an argument that may be None is the set of the values it
\* holds: None for none, Some(x) for the value x
None == {}
Some(x) == {x}

\* -------------------------------------------------------------------- Bee
\* the assertions of Bee.__init__: both thresholds given and not zero
Bee_accepts(buzz, fan) == buzz # 0 /\ fan # 0

\* Bee.__init__
Bee_init(buzz, fan) ==
    /\ Bee_accepts(buzz, fan)
    /\ buzz_temp = buzz
    /\ fan_temp = fan
    /\ is_buzzing = FALSE
    /\ is_fanning = FALSE

\* Truthy with only None not true
Truthy_NotNone(arg) == arg # None

\* the truth value of an argument in an assert: None and zero are not true
Truthy(arg) == \E x \in arg : x # 0

\* the value of an argument that is not None
Value(arg) == CHOOSE x \in arg : TRUE

\* Bee_construct with a third assertion, that fan_temp is above buzz_temp
Bee_construct_Ordered(buzz_arg, fan_arg) ==
    IF ~Truthy(buzz_arg) \/ ~Truthy(fan_arg) \/ ~(Value(fan_arg) > Value(buzz_arg))
    THEN /\ raised' = AssertionError
         /\ UNCHANGED <<buzz_temp, fan_temp, is_buzzing, is_fanning>>
    ELSE /\ raised' = NoError
         /\ buzz_temp' = Value(buzz_arg)
         /\ fan_temp' = Value(fan_arg)
         /\ is_buzzing' = FALSE
         /\ is_fanning' = FALSE

\* bee = Bee(buzz_temp, fan_temp): Bee.__init__ called by a driver that keeps
\* the Bee it had when the constructor raises
Bee_construct(buzz_arg, fan_arg) ==
    IF ~Truthy(buzz_arg) \/ ~Truthy(fan_arg)
    THEN /\ raised' = AssertionError
         /\ UNCHANGED <<buzz_temp, fan_temp, is_buzzing, is_fanning>>
    ELSE /\ raised' = NoError
         /\ buzz_temp' = Value(buzz_arg)
         /\ fan_temp' = Value(fan_arg)
         /\ is_buzzing' = FALSE
         /\ is_fanning' = FALSE

\* Classify with the two comparisons made independently of each other
Classify_Independent(new_temp, buzz, fan) == <<new_temp < buzz, new_temp > fan>>

\* Classify with the thresholds themselves outside the comfort range
Classify_Inclusive(new_temp, buzz, fan) ==
    IF new_temp <= buzz THEN <<TRUE, FALSE>>
    ELSE IF new_temp >= fan THEN <<FALSE, TRUE>>
    ELSE <<FALSE, FALSE>>

\* the three branches of Bee.handle_temperature_change: <<is_buzzing, is_fanning>>
Classify(new_temp, buzz, fan) ==
    IF new_temp < buzz THEN <<TRUE, FALSE>>
    ELSE IF new_temp > fan THEN <<FALSE, TRUE>>
    ELSE <<FALSE, FALSE>>

\* Bee_handle_temperature_change whatever the notification lists
Bee_handle_temperature_change_Always(beehive_current_temp, changed_properties) ==
    /\ raised' = NoError
    /\ LET flags == Classify(beehive_current_temp, buzz_temp, fan_temp) IN
            /\ is_buzzing' = flags[1]
            /\ is_fanning' = flags[2]
            /\ seen_temp' = {beehive_current_temp}
    /\ UNCHANGED <<buzz_temp, fan_temp>>

\* Bee.handle_temperature_change
Bee_handle_temperature_change(beehive_current_temp, changed_properties) ==
    /\ raised' = NoError
    /\ IF "current_temp" \in changed_properties
       THEN LET flags == Classify(beehive_current_temp, buzz_temp, fan_temp) IN
            /\ is_buzzing' = flags[1]
            /\ is_fanning' = flags[2]
            /\ seen_temp' = {beehive_current_temp}
       ELSE UNCHANGED <<is_buzzing, is_fanning, seen_temp>>
    /\ UNCHANGED <<buzz_temp, fan_temp>>

\* Bee.__init__, for a Bee of the colony: the entity as a record; seen is the
\* hive temperature of the last notification it took a temperature from
ColonyBee_init(buzz, fan) ==
    [buzz_temp |-> buzz, fan_temp |-> fan,
     is_buzzing |-> FALSE, is_fanning |-> FALSE, seen |-> None]

\* Bee.handle_temperature_change, for a Bee of the colony: the entity after
\* the handler
ColonyBee_handle_temperature_change(bee, beehive_current_temp, changed_properties) ==
    IF "current_temp" \in changed_properties
    THEN LET flags == Classify(beehive_current_temp, bee.buzz_temp, bee.fan_temp)
         IN  [bee EXCEPT !.is_buzzing = flags[1], !.is_fanning = flags[2],
                         !.seen = Some(beehive_current_temp)]
    ELSE bee

BeeTemps == (0 - MaxBeeTemp)..MaxBeeTemp
\* the thresholds a Bee is constructed with: None, zero, any other
ThresholdArgs == {None} \cup {Some(t) : t \in BeeTemps}
\* the changed_properties a beehive-changed notification can list
BeehiveProperties ==
    {{"current_temp"}, {"number_bees_buzzing"}, {"current_temp", "number_bees_fanning"}}

\* ----------------------------------------------------- OutsideTemperature
\* 24 * 60 / 2 and int(12 * 60): the minutes of half a day
HalfDay == 720

\* DayLength with a sample too many
DayLength_Extra == 2 * HalfDay + 1

\* len(self.__minute_temps)
DayLength == 2 * HalfDay

\* MinuteTemp rising all day
MinuteTemp_KeepsRising(lo, hi, minute) == HalfDay * lo + (hi - lo) * minute

\* MinuteTemp with the descent starting a minute early, so that it ends at lo
MinuteTemp_DescendsToMin(lo, hi, minute) ==
    IF minute < HalfDay
    THEN HalfDay * lo + (hi - lo) * minute
    ELSE HalfDay * hi - (hi - lo) * (minute + 1 - HalfDay)

\* self.__minute_temps[minute] for the given range, in units of 1/HalfDay
\* degree, in which min_temp + increment_change * minute is exact
MinuteTemp(lo, hi, minute) ==
    IF minute < HalfDay
    THEN HalfDay * lo + (hi - lo) * minute
    ELSE HalfDay * hi - (hi - lo) * (minute - HalfDay)

\* OutsideTemperature.__init__
OutsideTemperature_init(lo, hi) ==
    /\ min_temp = lo
    /\ max_temp = hi
    /\ ot_current_temp = MinuteTemp(lo, hi, 0)

\* OutsideTemperature_TimeAssert as the Beehive asserts it
OutsideTemperature_TimeAssert_Increasing(previous_time, new_time) ==
    new_time > previous_time

\* the assertion of OutsideTemperature.handle_time_update: previous_time is not None
OutsideTemperature_TimeAssert(previous_time, new_time) == previous_time \in Int

\* OutsideTemperature_handle_time_update looking up the minutes elapsed
OutsideTemperature_handle_time_update_Elapsed(previous_time, new_time) ==
    /\ IF ~OutsideTemperature_TimeAssert(previous_time, new_time)
       THEN /\ raised' = AssertionError
            /\ UNCHANGED ot_current_temp
       ELSE /\ raised' = NoError
            /\ ot_current_temp' =
                   MinuteTemp(min_temp, max_temp, (new_time - previous_time) % DayLength)
    /\ UNCHANGED <<min_temp, max_temp>>

\* OutsideTemperature.handle_time_update
OutsideTemperature_handle_time_update(previous_time, new_time) ==
    /\ IF ~OutsideTemperature_TimeAssert(previous_time, new_time)
       THEN /\ raised' = AssertionError
            /\ UNCHANGED ot_current_temp
       ELSE /\ raised' = NoError
            /\ ot_current_temp' = MinuteTemp(min_temp, max_temp, new_time % DayLength)
    /\ UNCHANGED <<min_temp, max_temp>>

\* the ranges an OutsideTemperature is built with: the default, the drivers'
\* and the test's, and one with min_temp = max_temp
Ranges == {<<50, 80>>, <<50, 90>>, <<0, 720>>, <<60, 60>>}

\* the times delivered to the OutsideTemperature and the display model
ClockTimes ==
    {h * HalfDay + j : h \in 0..MaxHalfDays, j \in 0..MaxOffset} \cup {440, 820}

\* the times of a recorded history of lookups: the half days and the two
\* other minutes test_temp_changes asks for
LookupTimes == {h * HalfDay : h \in 0..MaxHalfDays} \cup {440, 820}

\* ---------------------------------------------------- BeehiveDisplayModel
\* the copy of the Beehive a beehive-changed notification carries
BeehiveSnapshot(temp, bees, buzzing, fanning) ==
    [current_temp |-> temp, number_bees |-> bees,
     number_bees_buzzing |-> buzzing, number_bees_fanning |-> fanning]

\* BeehiveDisplayModel.__init__
BeehiveDisplayModel_init ==
    /\ dm_beehive = None
    /\ dm_outside_temp = None
    /\ min_outside_temp = 1000000
    /\ max_outside_temp = 0
    /\ min_hive_temp = 1000000
    /\ max_hive_temp = 0
    /\ min_number_bees = 1000000
    /\ max_number_bees = 0
    /\ min_number_bees_buzzing = 1000000
    /\ max_number_bees_buzzing = 0
    /\ min_number_bees_fanning = 1000000
    /\ max_number_bees_fanning = 0
    /\ dm_previous_time = -1
    /\ dm_new_time = 0

\* min taking the value just notified
Min_Latest(a, b) == b

\* the builtins min and max, of two numbers
Min(a, b) == IF b < a THEN b ELSE a
Max(a, b) == IF b > a THEN b ELSE a

\* BeehiveDisplayModel.handle_beehive_changed; changed_properties is a list,
\* empty or not, so that the assertion that it is not None holds
BeehiveDisplayModel_handle_beehive_changed(beehive, changed_properties) ==
    /\ raised' = NoError
    /\ dm_beehive' = Some(beehive)
    /\ min_hive_temp' = Min(min_hive_temp, beehive.current_temp)
    /\ max_hive_temp' = Max(max_hive_temp, beehive.current_temp)
    /\ min_number_bees' = Min(min_number_bees, beehive.number_bees)
    /\ max_number_bees' = Max(max_number_bees, beehive.number_bees)
    /\ min_number_bees_fanning' = Min(min_number_bees_fanning, beehive.number_bees_fanning)
    /\ max_number_bees_fanning' = Max(max_number_bees_fanning, beehive.number_bees_fanning)
    /\ min_number_bees_buzzing' = Min(min_number_bees_buzzing, beehive.number_bees_buzzing)
    /\ max_number_bees_buzzing' = Max(max_number_bees_buzzing, beehive.number_bees_buzzing)
    /\ UNCHANGED <<dmTimes, dm_outside_temp, dmOutsideBounds>>

\* BeehiveDisplayModel.handle_temp_changed
BeehiveDisplayModel_handle_temp_changed(temp_current_temp, changed_properties) ==
    /\ IF changed_properties = {}
       THEN /\ raised' = AssertionError
            /\ UNCHANGED <<dm_outside_temp, dmOutsideBounds>>
       ELSE /\ raised' = NoError
            /\ dm_outside_temp' = Some(temp_current_temp)
            /\ min_outside_temp' = Min(min_outside_temp, temp_current_temp)
            /\ max_outside_temp' = Max(max_outside_temp, temp_current_temp)
    /\ UNCHANGED <<dmTimes, dm_beehive, dmHiveBounds>>

\* the assertion of BeehiveDisplayModel.handle_time_update
BeehiveDisplayModel_TimeAssert(previous_time, new_time) == previous_time \in Int

\* BeehiveDisplayModel_handle_time_update keeping the new_time it had as the
\* previous_time
BeehiveDisplayModel_handle_time_update_Shifted(previous_time, new_time) ==
    /\ IF ~BeehiveDisplayModel_TimeAssert(previous_time, new_time)
       THEN /\ raised' = AssertionError
            /\ UNCHANGED <<dm_previous_time, dm_new_time>>
       ELSE /\ raised' = NoError
            /\ dm_previous_time' = dm_new_time
            /\ dm_new_time' = new_time
    /\ UNCHANGED <<dm_beehive, dm_outside_temp, dmHiveBounds, dmOutsideBounds>>

\* BeehiveDisplayModel.handle_time_update
BeehiveDisplayModel_handle_time_update(previous_time, new_time) ==
    /\ IF ~BeehiveDisplayModel_TimeAssert(previous_time, new_time)
       THEN /\ raised' = AssertionError
            /\ UNCHANGED <<dm_previous_time, dm_new_time>>
       ELSE /\ raised' = NoError
            /\ dm_previous_time' = previous_time
            /\ dm_new_time' = new_time
    /\ UNCHANGED <<dm_beehive, dm_outside_temp, dmHiveBounds, dmOutsideBounds>>

\* the Beehives a display model is shown: the one of test_display, one with
\* more fanning and a warmer hive, an empty and colder one
DisplayHives ==
    {BeehiveSnapshot(50, 4, 3, 1), BeehiveSnapshot(52, 4, 1, 3), BeehiveSnapshot(48, 0, 0, 0)}

\* the outside temperatures it is shown: the one of test_display, a lower
\* one, one below zero
DisplayTemps == {55, 40, -5}

\* ---------------------------------------------------------------- drivers
\* the entities added to a simulation, counted by class
Entities(beehives, outside_temperatures, display_models, bees) ==
    [Beehive |-> beehives, OutsideTemperature |-> outside_temperatures,
     BeehiveDisplayModel |-> display_models, Bee |-> bees]
NoEntities == Entities(0, 0, 0, 0)

\* BeehiveApp.main up to the with statement: the arguments are parsed
BeehiveApp_main(steps_arg, bees_arg) ==
    /\ max_steps = steps_arg
    /\ cli_number_bees = bees_arg
    /\ cli_pc = "create"
    /\ step = 1
    /\ advanced = 0
    /\ cli_entities = NoEntities

\* BeehiveApp.main: the Beehive, the OutsideTemperature, the display model
\* and the loop over range(0, args.number_bees) that adds a Bee each time
BeehiveApp_add_entities ==
    /\ cli_pc = "create"
    /\ cli_entities' = Entities(1, 1, 1, cli_number_bees)
    /\ cli_pc' = "loop"
    /\ UNCHANGED <<max_steps, cli_number_bees, step, advanced>>

\* step_size of BeehiveApp.main
step_size == 100

\* one iteration of for step in range(1, args.max_steps, step_size)
BeehiveApp_advance ==
    /\ cli_pc = "loop"
    /\ step < max_steps
    /\ advanced' = advanced + step_size
    /\ step' = step + step_size
    /\ UNCHANGED <<max_steps, cli_number_bees, cli_pc, cli_entities>>

\* the range is exhausted
BeehiveApp_exit ==
    /\ cli_pc = "loop"
    /\ ~(step < max_steps)
    /\ cli_pc' = "done"
    /\ UNCHANGED <<max_steps, cli_number_bees, step, advanced, cli_entities>>

\* the --number_bees a driver is given, and the texts of the GUI's 'Number
\* bees' field: a number, or a text that int() does not take (None)
NumberBees == 0..MaxNumberBees
NumberBeesTexts == {None} \cup {Some(n) : n \in 1..MaxNumberBees}

\* MainWindow.__init__ and _create_widgets
MainWindow_init(text) ==
    /\ button_text = "Start"
    /\ number_bees_edit = text
    /\ window_open = TRUE
    /\ gui_calls = <<>>
    /\ gui_entities = NoEntities

\* the exception that ends the try block of MainWindow._create_simulation:
\* int() of a text that is not a number; the other settings are valid
create_simulation_raised(text) ==
    IF text = None THEN ValueError ELSE NoError

\* the entities MainWindow._create_simulation adds: the three add_entity
\* calls of the try block, none of them reached when it raises before
create_simulation_entities(text) ==
    IF create_simulation_raised(text) # NoError
    THEN NoEntities
    ELSE Entities(1, 1, 1, 0)

\* start_pause_button_clicked with a resume that goes back to 'Start'
MainWindow_start_pause_button_clicked_Restart ==
    /\ IF button_text = "Start"
       THEN /\ button_text' = "Pause"
            /\ gui_entities' = create_simulation_entities(number_bees_edit)
            /\ gui_calls' = gui_calls \o <<"_create_simulation", "advance">>
       ELSE IF button_text = "Pause"
       THEN /\ button_text' = "Resume"
            /\ gui_calls' = Append(gui_calls, "pause")
            /\ UNCHANGED gui_entities
       ELSE IF button_text = "Resume"
       THEN /\ button_text' = "Start"
            /\ gui_calls' = Append(gui_calls, "advance")
            /\ UNCHANGED gui_entities
       ELSE UNCHANGED <<button_text, gui_calls, gui_entities>>
    /\ UNCHANGED <<number_bees_edit, window_open>>

\* MainWindow.start_pause_button_clicked
MainWindow_start_pause_button_clicked ==
    /\ IF button_text = "Start"
       THEN /\ button_text' = "Pause"
            /\ gui_entities' = create_simulation_entities(number_bees_edit)
            /\ gui_calls' = gui_calls \o <<"_create_simulation", "advance">>
       ELSE IF button_text = "Pause"
       THEN /\ button_text' = "Resume"
            /\ gui_calls' = Append(gui_calls, "pause")
            /\ UNCHANGED gui_entities
       ELSE IF button_text = "Resume"
       THEN /\ button_text' = "Pause"
            /\ gui_calls' = Append(gui_calls, "advance")
            /\ UNCHANGED gui_entities
       ELSE UNCHANGED <<button_text, gui_calls, gui_entities>>
    /\ UNCHANGED <<number_bees_edit, window_open>>

\* MainWindow.exit_button_clicked
MainWindow_exit_button_clicked ==
    /\ gui_calls' = Append(gui_calls, "shutdown")
    /\ window_open' = FALSE
    /\ UNCHANGED <<button_text, number_bees_edit, gui_entities>>

\* ------------------------------------------------------------------------
\* The entities as constructed, before any notification.
InitHive ==
    \E start_temp \in StartTemps, imp \in Impacts :
        Beehive_init(start_temp, imp[1], imp[2])

InitBee == \E buzz \in BeeTemps, fan \in BeeTemps : Bee_init(buzz, fan)

InitOutsideTemperature == \E r \in Ranges : OutsideTemperature_init(r[1], r[2])

\* the entities of test_beehive.py
TestHive == Beehive_init(10 * Scale, Scale \div 2, Scale \div 4)
TestBee == Bee_init(32, 100)
TestOutsideTemperature == OutsideTemperature_init(0, 720)

\* a simulation holding the Bees of the given thresholds (a function of the
\* guids), none of them announced to the Beehive yet
Simulation_add_bees(thresholds) ==
    /\ colony = [g \in DOMAIN thresholds |->
                    ColonyBee_init(thresholds[g][1], thresholds[g][2])]
    /\ to_create = DOMAIN thresholds
    /\ to_bees = {}
    /\ to_hive = {}

\* the drivers, where none runs, and no colony
NoColony == Simulation_add_bees(<<>>)
IdleApp == BeehiveApp_main(1, 0) /\ MainWindow_init(Some(1)) /\ NoColony

InitRecord ==
    /\ last = "init"
    /\ raised = NoError
    /\ now = 0
    /\ creates = 0
    /\ destroys = 0
    /\ violations = {}
    /\ seen_temp = {}
    /\ built = 1
    /\ shown_hive_temps = {}
    /\ shown_outside_temps = {}
    /\ ot_stale = FALSE
    /\ ot_new_time = -1
    /\ ot_seen = <<>>
    /\ BeehiveDisplayModel_init

InitHistory == InitRecord /\ IdleApp

Init == InitHive /\ TestBee /\ TestOutsideTemperature /\ InitHistory

notHive == <<beeVars, otVars, dmVars>>

\* ------------------------------------------------------------------------
\* SpecBees: any bee notification, for any guid, with the history of what
\* was delivered; the outside reading moves too.
BeeCreated ==
    \E guid \in Guids, bee \in BeeSnapshots :
        /\ creates < MaxCreates
        /\ Beehive_handle_new_bee(guid, bee)
        /\ last' = "bee_created"
        /\ creates' = creates + 1
        /\ violations' = IF guid \in DOMAIN known_bees
                         THEN violations \cup {"created_while_tracked"}
                         ELSE violations
        /\ UNCHANGED <<appVars, destroys, now, notHive>>

BeeDestroyed ==
    \E guid \in Guids :
        /\ destroys < MaxDestroys
        /\ Beehive_handle_dead_bee(guid)
        /\ last' = "bee_destroyed"
        /\ destroys' = destroys + 1
        /\ violations' = IF guid \in DOMAIN known_bees
                         THEN violations
                         ELSE violations \cup {"destroyed_while_untracked"}
        /\ UNCHANGED <<appVars, creates, now, notHive>>

BeeChanged ==
    \E guid \in Guids, bee \in BeeSnapshots, props \in BeeProperties :
        /\ Beehive_handle_bee_update(guid, bee, props)
        /\ last' = "bee_changed"
        /\ violations' = IF guid \in DOMAIN known_bees
                         THEN violations
                         ELSE violations \cup {"changed_while_untracked"}
        /\ UNCHANGED <<appVars, creates, destroys, now, notHive>>

OutsideTemperatureChanged ==
    \E reading \in OutsideReadings, props \in OutsideProperties :
        /\ Beehive_handle_outside_temperature_update(reading, props)
        /\ last' = "outside_temperature_changed"
        /\ UNCHANGED <<appVars, now, creates, destroys, violations, notHive>>

NextBees ==
    \/ BeeCreated
    \/ BeeDestroyed
    \/ BeeChanged
    \/ OutsideTemperatureChanged

SpecBees == Init /\ [][NextBees]_vars

\* SpecCreateDestroy: bee-created and bee-destroyed notifications only.
NextCreateDestroy ==
    \/ BeeCreated
    \/ BeeDestroyed

SpecCreateDestroy == Init /\ [][NextCreateDestroy]_vars

\* ------------------------------------------------------------------------
\* Spec: the Beehive under the scheduler.  Bees are created while untracked
\* and changed or destroyed while tracked, a changed notification lists what
\* changed; the clock runs forward, and a stale time update (new_time <=
\* previous_time) can be delivered as well.  No history is recorded.
ScheduledBeeCreated ==
    \E guid \in Guids \ DOMAIN known_bees, bee \in BeeSnapshots :
        /\ Beehive_handle_new_bee(guid, bee)
        /\ UNCHANGED <<appVars, now, histVars, notHive>>

ScheduledBeeDestroyed ==
    \E guid \in DOMAIN known_bees :
        /\ Beehive_handle_dead_bee(guid)
        /\ UNCHANGED <<appVars, now, histVars, notHive>>

ScheduledBeeChanged ==
    \E guid \in DOMAIN known_bees, bee \in BeeSnapshots :
        /\ Beehive_handle_bee_update(guid, bee, {"is_buzzing", "is_fanning"})
        /\ UNCHANGED <<appVars, now, histVars, notHive>>

ScheduledOutsideTemperatureChanged ==
    \E reading \in OutsideReadings :
        /\ Beehive_handle_outside_temperature_update(reading, {"current_temp"})
        /\ UNCHANGED <<appVars, now, histVars, notHive>>

TimeAdvance ==
    \E next_time \in Times :
        /\ next_time > now
        /\ Beehive_handle_time_update(now, next_time)
        /\ now' = next_time
        /\ UNCHANGED <<appVars, histVars, notHive>>

StaleTimeUpdate ==
    \E prev_time \in Times, next_time \in Times :
        /\ next_time <= prev_time
        /\ Beehive_handle_time_update(prev_time, next_time)
        /\ UNCHANGED <<appVars, now, histVars, notHive>>

Next ==
    \/ ScheduledBeeCreated
    \/ ScheduledBeeDestroyed
    \/ ScheduledBeeChanged
    \/ ScheduledOutsideTemperatureChanged
    \/ TimeAdvance
    \/ StaleTimeUpdate

Spec == Init /\ [][Next]_vars

\* ------------------------------------------------------------------------
\* SpecTest: test_time_update, for any bees: the bees are created with the
\* guids 1, 2, ... before the clock starts, then time advances a minute at a
\* time.
TestBees == 4

TestBeeCreated ==
    \E bee \in BeeSnapshots :
        /\ now = 0
        /\ number_bees < TestBees
        /\ Beehive_handle_new_bee(number_bees + 1, bee)
        /\ UNCHANGED <<appVars, now, histVars, notHive>>

TestNewTime ==
    /\ now < MaxTime
    /\ Beehive_handle_time_update(now, now + 1)
    /\ now' = now + 1
    /\ UNCHANGED <<appVars, histVars, notHive>>

NextTest ==
    \/ TestBeeCreated
    \/ TestNewTime

InitTest == TestHive /\ TestBee /\ TestOutsideTemperature /\ InitHistory

SpecTest == InitTest /\ [][NextTest]_vars

\* ------------------------------------------------------------------------
\* SpecBee: one Bee, with any thresholds its constructor accepts, receiving
\* beehive-changed notifications.
BeehiveChanged ==
    \E t \in BeeTemps, props \in BeehiveProperties :
        /\ Bee_handle_temperature_change(t, props)
        /\ last' = IF "current_temp" \in props
                   THEN "beehive_changed"
                   ELSE "beehive_changed_not_temp"
        /\ UNCHANGED <<appVars, hiveVars, otVars, dmVars, now, creates, destroys, violations,
                       built>>

NextBee == BeehiveChanged

InitOneBee == TestHive /\ InitBee /\ TestOutsideTemperature /\ InitHistory

SpecBee == InitOneBee /\ [][NextBee]_vars

\* ------------------------------------------------------------------------
\* SpecConstruct: a driver that constructs Bees, with any thresholds, None
\* and zero included, one after the other; the Bee it holds receives
\* beehive-changed notifications in between.
BeeConstructed ==
    \E buzz_arg \in ThresholdArgs, fan_arg \in ThresholdArgs :
        /\ built < MaxBuilt
        /\ Bee_construct(buzz_arg, fan_arg)
        /\ last' = "bee_constructed"
        /\ built' = IF raised' = NoError THEN built + 1 ELSE built
        /\ seen_temp' = IF raised' = NoError THEN {} ELSE seen_temp
        /\ UNCHANGED <<appVars, hiveVars, otVars, dmVars, now, creates, destroys, violations>>

NextConstruct ==
    \/ BeeConstructed
    \/ BeehiveChanged

SpecConstruct == InitTest /\ [][NextConstruct]_vars

\* ------------------------------------------------------------------------
\* SpecClock: time updates delivered to an OutsideTemperature and to a
\* BeehiveDisplayModel, with any pair of times: minutes of several days for
\* the one, which looks its temperature up, the first minutes for the other,
\* which records them.
OutsideTemperatureTimeUpdate ==
    \E prev_time \in ClockTimes, next_time \in ClockTimes :
        /\ OutsideTemperature_handle_time_update(prev_time, next_time)
        /\ last' = "outside_temperature_time_update"
        /\ ot_stale' = (next_time <= prev_time)
        /\ ot_new_time' = next_time
        /\ UNCHANGED <<appVars, hiveVars, beeVars, dmVars, now, creates, destroys, violations,
                       ot_seen>>

DisplayTimeUpdate ==
    \E prev_time \in Times, next_time \in Times :
        /\ BeehiveDisplayModel_handle_time_update(prev_time, next_time)
        /\ last' = "display_time_update"
        /\ UNCHANGED <<appVars, hiveVars, beeVars, otVars, now, creates, destroys, violations,
                       dmShown>>

NextClock ==
    \/ OutsideTemperatureTimeUpdate
    \/ DisplayTimeUpdate

InitClock == TestHive /\ TestBee /\ InitOutsideTemperature /\ InitHistory

SpecClock == InitClock /\ [][NextClock]_vars

\* ------------------------------------------------------------------------
\* SpecMinutes: the scheduler's clock delivered to an OutsideTemperature a
\* minute at a time, from minute 0 to the minute after the last half day.
MinuteElapsed ==
    LET t == IF ot_new_time = -1 THEN 0 ELSE ot_new_time IN
        /\ t <= MaxHalfDays * HalfDay
        /\ OutsideTemperature_handle_time_update(t, t + 1)
        /\ last' = "outside_temperature_time_update"
        /\ ot_stale' = FALSE
        /\ ot_new_time' = t + 1
        /\ UNCHANGED <<appVars, hiveVars, beeVars, dmVars, now, creates, destroys, violations,
                       ot_seen>>

NextMinutes == MinuteElapsed

SpecMinutes == InitClock /\ [][NextMinutes]_vars

\* ------------------------------------------------------------------------
\* SpecLookup: time updates delivered to an OutsideTemperature in any order,
\* with the temperature each new_time gave the first time.
OutsideTemperatureLookup ==
    \E prev_time \in LookupTimes, next_time \in LookupTimes :
        /\ OutsideTemperature_handle_time_update(prev_time, next_time)
        /\ last' = "outside_temperature_time_update"
        /\ ot_stale' = (next_time <= prev_time)
        /\ ot_new_time' = next_time
        /\ ot_seen' = IF next_time \in DOMAIN ot_seen
                      THEN ot_seen
                      ELSE ot_seen @@ (next_time :> ot_current_temp')
        /\ UNCHANGED <<appVars, hiveVars, beeVars, dmVars, now, creates, destroys, violations>>

NextLookup == OutsideTemperatureLookup

SpecLookup == InitClock /\ [][NextLookup]_vars

\* ------------------------------------------------------------------------
\* SpecDisplay: a BeehiveDisplayModel receiving beehive-changed,
\* outside-temperature-changed and time update notifications in any order.
DisplayBeehiveChanged ==
    \E beehive \in DisplayHives, props \in BeehiveProperties \cup {{}} :
        /\ BeehiveDisplayModel_handle_beehive_changed(beehive, props)
        /\ last' = "display_beehive_changed"
        /\ shown_hive_temps' = shown_hive_temps \cup {beehive.current_temp}
        /\ UNCHANGED <<appVars, hiveVars, beeVars, otVars, now, creates, destroys, violations,
                       shown_outside_temps>>

DisplayTempChanged ==
    \E temp \in DisplayTemps, props \in OutsideProperties :
        /\ BeehiveDisplayModel_handle_temp_changed(temp, props)
        /\ last' = "display_temp_changed"
        /\ shown_outside_temps' = IF raised' = NoError
                                  THEN shown_outside_temps \cup {temp}
                                  ELSE shown_outside_temps
        /\ UNCHANGED <<appVars, hiveVars, beeVars, otVars, now, creates, destroys, violations,
                       shown_hive_temps>>

NextDisplay ==
    \/ DisplayBeehiveChanged
    \/ DisplayTempChanged
    \/ DisplayTimeUpdate

SpecDisplay == InitTest /\ [][NextDisplay]_vars

\* ------------------------------------------------------------------------
\* SpecPassive: the simulation of test_beehive.py's entities with a display
\* model registered.  The OutsideTemperature is asked for the first minutes
\* of the day, its reading is delivered to the Beehive and to the display
\* model, the Beehive is delivered to the Bee and to the display model; each
\* delivery is a step of its own and the deliveries interleave in any order.
\* The range of the OutsideTemperature is one degree a minute and the hive has
\* not moved from its start temperature, so that the whole degrees delivered
\* are exact.
MinuteTimeUpdate ==
    \E prev_time \in Times, next_time \in Times :
        /\ OutsideTemperature_handle_time_update(prev_time, next_time)
        /\ last' = "outside_temperature_time_update"
        /\ ot_stale' = (next_time <= prev_time)
        /\ ot_new_time' = next_time
        /\ UNCHANGED <<appVars, hiveVars, beeVars, dmVars, now, creates, destroys, violations,
                       ot_seen>>

ReadingDelivered ==
    /\ Beehive_handle_outside_temperature_update((ot_current_temp * Scale) \div HalfDay,
                                                 {"current_temp"})
    /\ last' = "outside_temperature_changed"
    /\ UNCHANGED <<appVars, now, creates, destroys, violations, notHive>>

BeehiveDelivered ==
    /\ Bee_handle_temperature_change(current_temp \div Scale, {"current_temp"})
    /\ last' = "beehive_changed"
    /\ UNCHANGED <<appVars, hiveVars, otVars, dmVars, now, creates, destroys, violations,
                   built>>

\* ShownTempChanged storing the reading in the Beehive as well
ShownTempChanged_Feedback ==
    /\ BeehiveDisplayModel_handle_temp_changed(ot_current_temp \div HalfDay, {"current_temp"})
    /\ last' = "display_temp_changed"
    /\ outside_temp' = (ot_current_temp * Scale) \div HalfDay
    /\ UNCHANGED <<current_temp, buzzing_impact, fanning_impact, number_bees,
                   number_bees_buzzing, number_bees_fanning, known_bees>>
    /\ UNCHANGED <<appVars, beeVars, otVars, now, creates, destroys, violations, dmShown>>

ShownTempChanged ==
    /\ BeehiveDisplayModel_handle_temp_changed(ot_current_temp \div HalfDay, {"current_temp"})
    /\ last' = "display_temp_changed"
    /\ UNCHANGED <<appVars, hiveVars, beeVars, otVars, now, creates, destroys, violations,
                   dmShown>>

ShownBeehiveChanged ==
    \E props \in BeehiveProperties :
        /\ BeehiveDisplayModel_handle_beehive_changed(
               BeehiveSnapshot(current_temp \div Scale, number_bees,
                               number_bees_buzzing, number_bees_fanning), props)
        /\ last' = "display_beehive_changed"
        /\ UNCHANGED <<appVars, hiveVars, beeVars, otVars, now, creates, destroys, violations,
                       dmShown>>

NextPassive ==
    \/ MinuteTimeUpdate
    \/ ReadingDelivered
    \/ BeehiveDelivered
    \/ ShownTempChanged
    \/ ShownBeehiveChanged
    \/ DisplayTimeUpdate

SpecPassive == InitTest /\ [][NextPassive]_vars

\* ------------------------------------------------------------------------
\* SpecCli: the command-line driver, for any --max_steps and --number_bees.
CliEntitiesAdded ==
    /\ BeehiveApp_add_entities
    /\ last' = "cli_add_entities"
    /\ UNCHANGED <<hiveVars, beeVars, otVars, dmVars, raised, now, creates, destroys,
                   violations, guiVars, simVars>>

CliAdvanced ==
    /\ BeehiveApp_advance
    /\ last' = "cli_advance_and_wait"
    /\ UNCHANGED <<hiveVars, beeVars, otVars, dmVars, raised, now, creates, destroys,
                   violations, guiVars, simVars>>

CliExit ==
    /\ BeehiveApp_exit
    /\ last' = "cli_exit"
    /\ UNCHANGED <<hiveVars, beeVars, otVars, dmVars, raised, now, creates, destroys,
                   violations, guiVars, simVars>>

NextCli ==
    \/ CliEntitiesAdded
    \/ CliAdvanced
    \/ CliExit

InitCli ==
    /\ TestHive /\ TestBee /\ TestOutsideTemperature /\ InitRecord
    /\ \E steps_arg \in 1..MaxSteps, bees_arg \in NumberBees :
          BeehiveApp_main(steps_arg, bees_arg)
    /\ MainWindow_init(Some(1))
    /\ NoColony

SpecCli == InitCli /\ [][NextCli]_vars

\* ------------------------------------------------------------------------
\* SpecGui: the GUI, with any text in its 'Number bees' field, under any
\* clicks on its two buttons.  The field is edited before the first click on
\* the start/pause button; nothing reads it afterwards.
NumberBeesEdited ==
    \E text \in NumberBeesTexts :
        /\ window_open
        /\ button_text = "Start"
        /\ number_bees_edit' = text
        /\ last' = "number_bees_edited"
        /\ UNCHANGED <<button_text, window_open, gui_calls, gui_entities>>
        /\ UNCHANGED <<hiveVars, beeVars, otVars, dmVars, raised, now, creates,
                       destroys, violations, cliVars, simVars>>

StartPauseButtonClicked ==
    /\ window_open
    /\ Len(gui_calls) < MaxCalls
    /\ MainWindow_start_pause_button_clicked
    /\ last' = "start_pause_button_clicked"
    /\ UNCHANGED <<hiveVars, beeVars, otVars, dmVars, raised, now, creates, destroys,
                   violations, cliVars, simVars>>

ExitButtonClicked ==
    /\ window_open
    /\ MainWindow_exit_button_clicked
    /\ last' = "exit_button_clicked"
    /\ UNCHANGED <<hiveVars, beeVars, otVars, dmVars, raised, now, creates, destroys,
                   violations, cliVars, simVars>>

NextGui ==
    \/ NumberBeesEdited
    \/ StartPauseButtonClicked
    \/ ExitButtonClicked

InitGui ==
    /\ TestHive /\ TestBee /\ TestOutsideTemperature /\ InitRecord
    /\ BeehiveApp_main(1, 0)
    /\ \E text \in NumberBeesTexts : MainWindow_init(text)
    /\ NoColony

SpecGui == InitGui /\ [][NextGui]_vars

\* ------------------------------------------------------------------------
\* SpecColony: the Beehive and MaxGuid Bees under the scheduler.  Each Bee is
\* announced to the Beehive before the clock starts.  A time update that
\* changes current_temp is followed by the beehive-changed notification to
\* every Bee, and a Bee whose flags that changes by its bee-changed
\* notification to the Beehive; the next time update and the next outside
\* reading wait until all of them are delivered.
\* Thresholds and readings are in the unit of the Beehive's temperatures.
ColonyThresholds ==
    {<<12 * Scale, 13 * Scale>>, <<8 * Scale, 9 * Scale>>,
     <<9 * Scale, 12 * Scale>>, <<11 * Scale, 10 * Scale>>}
ColonyReadings == {5 * Scale, 10 * Scale}

ColonySnapshot(g) == BeeSnapshot(colony[g].is_buzzing, colony[g].is_fanning)

Quiescent == to_create = {} /\ to_bees = {} /\ to_hive = {}

notColony == <<cliVars, guiVars, beeVars, otVars, dmVars, creates, destroys,
               violations>>

ColonyBeeCreated ==
    \E g \in to_create :
        /\ Beehive_handle_new_bee(g, ColonySnapshot(g))
        /\ to_create' = to_create \ {g}
        /\ last' = "bee_created"
        /\ UNCHANGED <<colony, to_bees, to_hive, now, notColony>>

ColonyOutsideTemperatureChanged ==
    \E reading \in ColonyReadings :
        /\ Quiescent
        /\ reading # outside_temp
        /\ Beehive_handle_outside_temperature_update(reading, {"current_temp"})
        /\ last' = "outside_temperature_changed"
        /\ UNCHANGED <<simVars, now, notColony>>

ColonyTimeAdvance ==
    \E next_time \in Times :
        /\ Quiescent
        /\ next_time > now
        /\ Beehive_handle_time_update(now, next_time)
        /\ now' = next_time
        /\ to_bees' = IF current_temp' # current_temp THEN DOMAIN colony ELSE {}
        /\ last' = "time_update"
        /\ UNCHANGED <<colony, to_create, to_hive, notColony>>

ColonyBeehiveChanged ==
    \E g \in to_bees :
        LET bee == ColonyBee_handle_temperature_change(colony[g], current_temp,
                                                       {"current_temp"})
        IN  /\ colony' = [colony EXCEPT ![g] = bee]
            /\ to_bees' = to_bees \ {g}
            /\ to_hive' = IF <<bee.is_buzzing, bee.is_fanning>> #
                               <<colony[g].is_buzzing, colony[g].is_fanning>>
                          THEN to_hive \cup {g} ELSE to_hive
            /\ raised' = NoError
            /\ last' = "beehive_changed"
            /\ UNCHANGED <<hiveVars, to_create, now, notColony>>

ColonyBeeChanged ==
    \E g \in to_hive :
        /\ to_bees = {}
        /\ Beehive_handle_bee_update(g, ColonySnapshot(g),
                                     {"is_buzzing", "is_fanning"})
        /\ to_hive' = to_hive \ {g}
        /\ last' = "bee_changed"
        /\ UNCHANGED <<colony, to_create, to_bees, now, notColony>>

NextColony ==
    \/ ColonyBeeCreated
    \/ ColonyOutsideTemperatureChanged
    \/ ColonyTimeAdvance
    \/ ColonyBeehiveChanged
    \/ ColonyBeeChanged

InitColony ==
    /\ InitHive /\ TestBee /\ TestOutsideTemperature /\ InitRecord
    /\ BeehiveApp_main(1, 0) /\ MainWindow_init(Some(1))
    /\ \E thresholds \in [Guids -> ColonyThresholds] :
          Simulation_add_bees(thresholds)

SpecColony == InitColony /\ [][NextColony]_vars

TypeOK ==
    /\ \A g \in DOMAIN known_bees : known_bees[g] \in BeeSnapshots
    /\ now < MaxTime => (current_temp - outside_temp) % 5 = 0
    /\ ~(is_buzzing /\ is_fanning)

\* ========================================================================
\* Properties
Abs(x) == IF x < 0 THEN 0 - x ELSE x

TrackedBuzzing == {g \in DOMAIN known_bees : known_bees[g].is_buzzing}
TrackedFanning == {g \in DOMAIN known_bees : known_bees[g].is_fanning}

\* C1 (SpecBees): as long as every guid was created only while untracked and
\* changed or destroyed only while tracked, number_bees is the size of the
\* tracked mapping, number_bees_buzzing the number of tracked snapshots with
\* is_buzzing (what get_number_bees_buzzing returns) and number_bees_fanning
\* the number with is_fanning (get_number_bees_fanning).
C1_CountersMatchTracked ==
    violations = {} =>
        /\ number_bees = Cardinality(DOMAIN known_bees)
        /\ number_bees_buzzing = Cardinality(TrackedBuzzing)
        /\ number_bees_buzzing = get_number_bees_buzzing
        /\ number_bees_fanning = Cardinality(TrackedFanning)
        /\ number_bees_fanning = get_number_bees_fanning

\* a well-formed history with creations, a destruction and, last, a change
\* after which a bee is fanning
C1_Witness ==
    /\ violations = {}
    /\ creates >= 2
    /\ destroys >= 1
    /\ last = "bee_changed"
    /\ raised = NoError
    /\ number_bees_fanning = 1

\* C2 as stated (SpecCreateDestroy): after any bee-created and bee-destroyed
\* notifications, for any guids, number_bees is creations minus destructions
\* and the two flag counters are the counts over the tracked mapping.
C2_AnyGuids ==
    /\ number_bees = creates - destroys
    /\ number_bees_buzzing = Cardinality(TrackedBuzzing)
    /\ number_bees_fanning = Cardinality(TrackedFanning)

\* C2 amended (SpecCreateDestroy): the same, for the histories in which no
\* bee-created notification was for a guid already tracked.
C2_NoCreateWhileTracked ==
    "created_while_tracked" \notin violations => C2_AnyGuids

\* creations and a destruction, none for a tracked guid, a bee left buzzing
C2_Witness ==
    /\ "created_while_tracked" \notin violations
    /\ creates >= 2
    /\ destroys >= 1
    /\ last = "bee_destroyed"
    /\ number_bees_buzzing >= 1

\* the flags C3 gives a Bee for the hive temperature t, each case read on
\* its own
C3_FlagsAsStated(t) ==
    /\ t < buzz_temp => (is_buzzing /\ ~is_fanning)
    /\ t > fan_temp => (~is_buzzing /\ is_fanning)
    /\ (~(t < buzz_temp) /\ ~(t > fan_temp)) => (~is_buzzing /\ ~is_fanning)
    /\ (t = buzz_temp \/ t = fan_temp) => (~is_buzzing /\ ~is_fanning)

C4_PullsTowardOutside ==
    [][\A t0 \in Times, t1 \in Times :
          ( /\ t1 > t0
            /\ Beehive_handle_time_update(t0, t1)
            /\ get_number_bees_buzzing = 0
            /\ get_number_bees_fanning = 0 )
          => /\ current_temp > outside_temp => current_temp' < current_temp
             /\ current_temp < outside_temp => current_temp' > current_temp
             /\ 5 * Abs(outside_temp - current_temp')
                    = 4 * Abs(outside_temp - current_temp)]_vars

C6_TimeUpdateTerms ==
    [][\A t0 \in Times, t1 \in Times :
          (t1 > t0 /\ Beehive_handle_time_update(t0, t1))
          => LET perMinute == Cardinality(TrackedBuzzing) * buzzing_impact
                              - Cardinality(TrackedFanning) * fanning_impact
                 outsideTerm == (current_temp' - current_temp) - perMinute * (t1 - t0)
             IN  /\ 5 * Abs(outsideTerm) = Abs(outside_temp - current_temp)
                 /\ \A t2 \in Times :
                       t2 > t0 =>
                           (TempAfterTimeUpdate(t0, t2) - current_temp)
                               - perMinute * (t2 - t0) = outsideTerm]_vars

\* an accepted time update of more than a minute, with bees buzzing and
\* fanning and the hive not at the outside temperature
C6_Witness ==
    /\ raised = NoError
    /\ now >= 2
    /\ Cardinality(TrackedBuzzing) >= 1
    /\ Cardinality(TrackedFanning) >= 1
    /\ current_temp # outside_temp
    /\ outside_temp # 10 * Scale

\* C7 (SpecBees): a bee-changed notification for a guid that is not tracked
\* raises, and leaves the counters, the tracked mapping, current_temp and
\* outside_temp (every field of the Beehive) as they were.
C7_UntrackedChangeRejected ==
    [][\A guid \in Guids, bee \in BeeSnapshots, props \in BeeProperties :
          (guid \notin DOMAIN known_bees /\ Beehive_handle_bee_update(guid, bee, props))
          => /\ raised' \in {KeyError, AssertionError}
             /\ UNCHANGED hiveVars]_vars

\* a change for an untracked guid was rejected while another bee is tracked
C7_Witness ==
    /\ last = "bee_changed"
    /\ raised = KeyError
    /\ number_bees_buzzing >= 1
    /\ Cardinality(DOMAIN known_bees) >= 1
    /\ outside_temp # current_temp

\* C8 (SpecBees): a bee-destroyed notification for a guid that is not tracked
\* raises and leaves the three counters and the tracked mapping as they
\* were; number_bees is then not negative and is the size of the mapping,
\* if it was before.
C8_UntrackedDestroyRejected ==
    [][\A guid \in Guids :
          (guid \notin DOMAIN known_bees /\ Beehive_handle_dead_bee(guid))
          => /\ raised' = KeyError
             /\ UNCHANGED <<number_bees, number_bees_buzzing, number_bees_fanning,
                            known_bees>>
             /\ number_bees >= 0 => number_bees' >= 0
             /\ number_bees = Cardinality(DOMAIN known_bees)
                    => number_bees' = Cardinality(DOMAIN known_bees')]_vars

\* C9 (Spec): a time update with new_time <= previous_time raises, and
\* leaves current_temp and every other field of the Beehive as they were.
C9_StaleTimeRejected ==
    [][\A t0 \in Times, t1 \in Times :
          (t1 <= t0 /\ Beehive_handle_time_update(t0, t1))
          => /\ raised' = AssertionError
             /\ UNCHANGED hiveVars]_vars

\* a stale time update, the one notification that raises AssertionError
\* under Spec, was rejected by a hive that is off the outside temperature,
\* after the clock had advanced
C9_Witness ==
    /\ raised = AssertionError
    /\ now >= 1
    /\ current_temp # outside_temp
    /\ Cardinality(DOMAIN known_bees) >= 1

\* C10 as stated (SpecClock): a time update with new_time <= previous_time
\* delivered to an OutsideTemperature or to a BeehiveDisplayModel raises;
\* the current_temp of the one and the recorded times of the other stay.
C10_StaleTimeRejectedByOthers ==
    [][/\ \A t0 \in ClockTimes, t1 \in ClockTimes :
             (t1 <= t0 /\ OutsideTemperature_handle_time_update(t0, t1))
             => (raised' = AssertionError /\ UNCHANGED ot_current_temp)
       /\ \A t0 \in Times, t1 \in Times :
             (t1 <= t0 /\ BeehiveDisplayModel_handle_time_update(t0, t1))
             => (raised' = AssertionError /\ UNCHANGED dmVars)]_vars

\* the sample C12 gives for minute k of the day, in units of 1/720 degree
C10_Sample(k) ==
    IF k < 720
    THEN 720 * min_temp + k * (max_temp - min_temp)
    ELSE 720 * max_temp - (k - 720) * (max_temp - min_temp)

\* C10 amended (SpecClock): a time update with new_time <= previous_time is
\* handled like any other: the OutsideTemperature does not raise and sets
\* current_temp to the sample of new_time mod 1440, the BeehiveDisplayModel
\* does not raise and records the pair delivered.
C10_StaleTimeAccepted ==
    [][/\ \A t0 \in ClockTimes, t1 \in ClockTimes :
             (t1 <= t0 /\ OutsideTemperature_handle_time_update(t0, t1))
             => /\ raised' = NoError
                /\ ot_current_temp' = C10_Sample(t1 % 1440)
       /\ \A t0 \in Times, t1 \in Times :
             (t1 <= t0 /\ BeehiveDisplayModel_handle_time_update(t0, t1))
             => /\ raised' = NoError
                /\ dm_previous_time' = t0
                /\ dm_new_time' = t1]_vars

\* both entities have taken a stale time update, the OutsideTemperature last
C10_Witness ==
    /\ last = "outside_temperature_time_update"
    /\ raised = NoError
    /\ ot_stale
    /\ ot_current_temp # 720 * min_temp
    /\ dm_new_time < dm_previous_time

\* C11 (Spec): an outside-temperature-changed notification that lists what
\* changed sets the Beehive's outside_temp to the notified reading and leaves
\* current_temp, the three bee counters and the tracked mapping as they were;
\* current_temp moves only in a step in which the clock advances.
C11_OutsideUpdateFrame ==
    [][/\ \A reading \in OutsideReadings, props \in OutsideProperties \ {{}} :
            Beehive_handle_outside_temperature_update(reading, props) =>
                /\ outside_temp' = reading
                /\ UNCHANGED <<current_temp, number_bees, number_bees_buzzing,
                               number_bees_fanning, known_bees>>
       /\ current_temp' # current_temp => now' > now]_vars

\* the reading was stored while bees are tracked and the clock has not
\* moved: the hive is still at its start temperature
C11_Witness ==
    /\ now = 0
    /\ raised = NoError
    /\ number_bees >= 1
    /\ number_bees_fanning >= 1
    /\ outside_temp \in OutsideReadings
    /\ outside_temp # current_temp
    /\ current_temp \in StartTemps

\* the table C12 describes, in units of 1/720 degree: exactly 1440 samples,
\* numbered from 0
C12_Table ==
    [k \in 0..1439 |->
        IF k < 720
        THEN 720 * min_temp + k * (max_temp - min_temp)
        ELSE 720 * max_temp - (k - 720) * (max_temp - min_temp)]

\* what test_temp_changes reads at each time, for the range 0..720
C12_TestReadings == {<<0, 0>>, <<720, 720>>, <<1440, 0>>, <<440, 440>>, <<820, 620>>}

\* C12 (SpecClock): before any time update the OutsideTemperature's
\* current_temp is min_temp; after a time update to new_time it is sample
\* new_time mod 1440 of the table of 1440 samples that rises from min_temp by
\* (max_temp - min_temp)/720 a minute for 720 minutes and then falls from
\* max_temp at the same rate; for the range 0..720 that is 0 at 0, 720 at 720,
\* 0 at 1440, 440 at 440 and 620 at 820.
C12_SampleOfNewTime ==
    /\ DayLength = 1440
    /\ ot_new_time = -1 => ot_current_temp = 720 * min_temp
    /\ ot_new_time # -1 => ot_current_temp = C12_Table[ot_new_time % 1440]
    /\ (min_temp = 0 /\ max_temp = 720) =>
           \A r \in C12_TestReadings :
               ot_new_time = r[1] => ot_current_temp = 720 * r[2]

\* the default range, asked for minute 820: a sample of the falling half
C12_Witness ==
    /\ min_temp = 50
    /\ max_temp = 80
    /\ ot_new_time = 820
    /\ ot_current_temp = 720 * 80 - 100 * 30

\* C13 (SpecLookup): the temperature after a time update to new_time is the
\* one the first time update to that new_time gave, whatever previous_time
\* comes with it and whatever was delivered in between, in any order; a time
\* update to the new_time delivered just before leaves current_temp as it is.
C13_PureLookup ==
    [][\A t0 \in LookupTimes, t1 \in LookupTimes :
          OutsideTemperature_handle_time_update(t0, t1) =>
              /\ t1 \in DOMAIN ot_seen => ot_current_temp' = ot_seen[t1]
              /\ t1 = ot_new_time => UNCHANGED ot_current_temp]_vars

\* minute 440 is asked for again after later and earlier minutes, the last
\* time with a previous_time after it
C13_Witness ==
    /\ DOMAIN ot_seen = LookupTimes
    /\ ot_new_time = 440
    /\ ot_stale
    /\ ot_current_temp = ot_seen[440]
    /\ ot_current_temp # ot_seen[820]

\* C14 (SpecBee): a Bee built with any thresholds the constructor accepts,
\* fan_temp <= buzz_temp included, never has is_buzzing and is_fanning both
\* true, whatever beehive-changed notifications it has received.
C14_NeverBuzzingAndFanning == ~(is_buzzing /\ is_fanning)

\* a Bee with fan_temp below buzz_temp has taken a hive temperature between
\* the two, below the one and above the other
C14_Witness ==
    /\ last = "beehive_changed"
    /\ fan_temp < buzz_temp
    /\ \E t \in seen_temp : t < buzz_temp /\ t > fan_temp
    /\ is_buzzing

\* the lesser and the greater of two numbers
C15_Lesser(a, b) == IF a <= b THEN a ELSE b
C15_Greater(a, b) == IF a >= b THEN a ELSE b

\* C15 (SpecDisplay): in no step of a BeehiveDisplayModel does one of its five
\* minimums increase or one of its five maximums decrease; a beehive-changed
\* notification sets each hive bound to the lesser (greater) of the old bound
\* and the notified value, an outside-temperature-changed notification that
\* lists what changed does so for the two outside bounds.
C15_BoundsWiden ==
    [][/\ min_hive_temp' <= min_hive_temp
       /\ min_outside_temp' <= min_outside_temp
       /\ min_number_bees' <= min_number_bees
       /\ min_number_bees_buzzing' <= min_number_bees_buzzing
       /\ min_number_bees_fanning' <= min_number_bees_fanning
       /\ max_hive_temp' >= max_hive_temp
       /\ max_outside_temp' >= max_outside_temp
       /\ max_number_bees' >= max_number_bees
       /\ max_number_bees_buzzing' >= max_number_bees_buzzing
       /\ max_number_bees_fanning' >= max_number_bees_fanning
       /\ \A b \in DisplayHives, props \in BeehiveProperties \cup {{}} :
             BeehiveDisplayModel_handle_beehive_changed(b, props) =>
                 /\ min_hive_temp' = C15_Lesser(min_hive_temp, b.current_temp)
                 /\ max_hive_temp' = C15_Greater(max_hive_temp, b.current_temp)
                 /\ min_number_bees' = C15_Lesser(min_number_bees, b.number_bees)
                 /\ max_number_bees' = C15_Greater(max_number_bees, b.number_bees)
                 /\ min_number_bees_buzzing' =
                        C15_Lesser(min_number_bees_buzzing, b.number_bees_buzzing)
                 /\ max_number_bees_buzzing' =
                        C15_Greater(max_number_bees_buzzing, b.number_bees_buzzing)
                 /\ min_number_bees_fanning' =
                        C15_Lesser(min_number_bees_fanning, b.number_bees_fanning)
                 /\ max_number_bees_fanning' =
                        C15_Greater(max_number_bees_fanning, b.number_bees_fanning)
       /\ \A t \in DisplayTemps, props \in OutsideProperties \ {{}} :
             BeehiveDisplayModel_handle_temp_changed(t, props) =>
                 /\ min_outside_temp' = C15_Lesser(min_outside_temp, t)
                 /\ max_outside_temp' = C15_Greater(max_outside_temp, t)]_vars

\* the hive and the outside temperature shown last lie strictly between the
\* bounds, which earlier notifications widened, and a time update came last
C15_Witness ==
    /\ last = "display_time_update"
    /\ min_hive_temp = 48
    /\ max_hive_temp = 52
    /\ \E b \in dm_beehive : b.current_temp = 50
    /\ min_number_bees_fanning = 0
    /\ max_number_bees_fanning = 3
    /\ min_outside_temp = -5
    /\ max_outside_temp = 55
    /\ dm_outside_temp = Some(40)

\* C16 (SpecDisplay): a time update delivered to a BeehiveDisplayModel records
\* the previous_time and the new_time delivered and changes none of the ten
\* bounds, nor the stored beehive, nor the stored outside_temp.
C16_TimeUpdateFrame ==
    [][\A t0 \in Times, t1 \in Times :
          BeehiveDisplayModel_handle_time_update(t0, t1) =>
              /\ dm_previous_time' = t0
              /\ dm_new_time' = t1
              /\ UNCHANGED <<dm_beehive, dm_outside_temp>>
              /\ UNCHANGED <<min_outside_temp, max_outside_temp, min_hive_temp,
                             max_hive_temp, min_number_bees, max_number_bees,
                             min_number_bees_buzzing, max_number_bees_buzzing,
                             min_number_bees_fanning, max_number_bees_fanning>>]_vars

\* test_display: the hive at 50 with four bees, 55 outside, then a time update
C16_Witness ==
    /\ last = "display_time_update"
    /\ raised = NoError
    /\ min_hive_temp = 50
    /\ max_hive_temp = 50
    /\ dm_beehive = Some(BeehiveSnapshot(50, 4, 3, 1))
    /\ dm_outside_temp = Some(55)
    /\ min_outside_temp = 55
    /\ dm_previous_time = 0
    /\ dm_new_time = MaxTime

\* the steps of the display model's three handlers
C17_DisplayStep ==
    last' \in {"display_beehive_changed", "display_temp_changed", "display_time_update"}

\* C17 (SpecPassive): no step of a handler of the BeehiveDisplayModel changes
\* a field of the Beehive, of the Bee or of the OutsideTemperature, so the
\* three evolve as they do without it.
C17_DisplayPassive ==
    [][C17_DisplayStep =>
          /\ UNCHANGED <<current_temp, outside_temp, buzzing_impact, fanning_impact,
                         number_bees, number_bees_buzzing, number_bees_fanning,
                         known_bees>>
          /\ UNCHANGED <<buzz_temp, fan_temp, is_buzzing, is_fanning>>
          /\ UNCHANGED <<min_temp, max_temp, ot_current_temp>>]_vars

\* the display model was shown an outside temperature the Beehive has not
\* been delivered, and a second one after it, while the Bee was buzzing
C17_Witness ==
    /\ last = "display_temp_changed"
    /\ is_buzzing
    /\ outside_temp \in StartTemps
    /\ ot_current_temp # 0
    /\ dm_outside_temp = Some(ot_current_temp \div HalfDay)
    /\ min_outside_temp < max_outside_temp
    /\ dm_beehive # None

\* C18 (SpecBee): a beehive-changed notification that does not list
\* current_temp leaves is_buzzing and is_fanning as they were; a step that
\* changes one of them is a step of the handler for a notification that does
\* list it; buzz_temp and fan_temp never change.
C18_FlagsFrame ==
    [][/\ \A t \in BeeTemps, props \in BeehiveProperties :
             ("current_temp" \notin props /\ Bee_handle_temperature_change(t, props))
             => UNCHANGED <<is_buzzing, is_fanning>>
       /\ last' = "beehive_changed_not_temp" => UNCHANGED <<is_buzzing, is_fanning>>
       /\ (is_buzzing' # is_buzzing \/ is_fanning' # is_fanning) =>
             /\ last' = "beehive_changed"
             /\ \E t \in BeeTemps, props \in BeehiveProperties :
                    "current_temp" \in props /\ Bee_handle_temperature_change(t, props)
       /\ UNCHANGED <<buzz_temp, fan_temp>>]_vars

\* a fanning Bee has received a notification that lists only a counter, with
\* any hive temperature, those that would stop it fanning included
C18_Witness ==
    /\ last = "beehive_changed_not_temp"
    /\ is_fanning
    /\ buzz_temp < fan_temp
    /\ \E t \in seen_temp : t > fan_temp

\* C19 (SpecConstruct): the construction of a Bee with buzz_temp or fan_temp
\* None or zero raises and yields no Bee, the Bee held before is as it was;
\* with both thresholds given and not zero it does not raise and yields a Bee
\* with these thresholds that neither buzzes nor fans.
C19_ConstructionChecked ==
    [][\A buzz_arg \in ThresholdArgs, fan_arg \in ThresholdArgs :
          (last' = "bee_constructed" /\ Bee_construct(buzz_arg, fan_arg)) =>
              IF buzz_arg \in {None, Some(0)} \/ fan_arg \in {None, Some(0)}
              THEN /\ raised' = AssertionError
                   /\ built' = built
                   /\ UNCHANGED <<buzz_temp, fan_temp, is_buzzing, is_fanning>>
              ELSE /\ raised' = NoError
                   /\ built' = built + 1
                   /\ buzz_arg = Some(buzz_temp')
                   /\ fan_arg = Some(fan_temp')
                   /\ ~is_buzzing'
                   /\ ~is_fanning']_vars

\* a second Bee was constructed while the first was buzzing, and a third
\* construction was rejected
C19_Witness ==
    /\ last = "bee_constructed"
    /\ raised = AssertionError
    /\ built = 2
    /\ buzz_temp < 0
    /\ ~is_buzzing

C22_FreshAndFixedPoint ==
    /\ ( /\ current_temp \in StartTemps
         /\ outside_temp = current_temp
         /\ number_bees = 0
         /\ number_bees_buzzing = 0
         /\ number_bees_fanning = 0
         /\ known_bees = <<>> )
    /\ [][( /\ outside_temp = current_temp
             /\ get_number_bees_buzzing = 0
             /\ get_number_bees_fanning = 0 )
          => \A t0 \in Times, t1 \in Times :
                 (t1 > t0 /\ Beehive_handle_time_update(t0, t1))
                 => (raised' = NoError /\ UNCHANGED current_temp)]_vars

\* the clock has run to its end over a hive of idle bees that was never
\* delivered an outside reading: the hive is where it started
C22_Witness ==
    /\ now = MaxTime
    /\ raised = NoError
    /\ number_bees >= 1
    /\ get_number_bees_buzzing = 0
    /\ get_number_bees_fanning = 0
    /\ outside_temp = current_temp
    /\ current_temp \in StartTemps

\* C23 (Spec): a time update of the Beehive changes nothing but
\* current_temp: in every step that moves the clock or current_temp, the
\* three counters, the tracked mapping, outside_temp and the two impacts are
\* as before.
C23_TimeUpdateFrame ==
    [][(now' # now \/ current_temp' # current_temp) =>
          UNCHANGED <<number_bees, number_bees_buzzing, number_bees_fanning,
                      known_bees, outside_temp, buzzing_impact, fanning_impact>>]_vars

\* the clock has moved a hive with a buzzing bee and an outside reading
\* below its temperature
C23_Witness ==
    /\ now > 0
    /\ raised = NoError
    /\ number_bees_buzzing >= 1
    /\ outside_temp \in OutsideReadings
    /\ current_temp > outside_temp
    /\ current_temp \notin StartTemps

\* C24 (SpecMinutes): an OutsideTemperature built with min_temp <= max_temp
\* has min_temp <= current_temp <= max_temp when constructed and after every
\* time update, and each of its 1440 samples lies between the two.
C24_WithinRange ==
    min_temp <= max_temp =>
        /\ 720 * min_temp <= ot_current_temp
        /\ ot_current_temp <= 720 * max_temp
        /\ \A k \in 0..1439 :
              /\ 720 * min_temp <= MinuteTemp(min_temp, max_temp, k)
              /\ MinuteTemp(min_temp, max_temp, k) <= 720 * max_temp

\* the turn of the day: the temperature is max_temp
C24_Witness ==
    /\ min_temp < max_temp
    /\ ot_new_time = 720
    /\ ot_current_temp = 720 * max_temp

\* C25 (SpecMinutes): from one minute to the next the temperature moves by
\* exactly (max_temp - min_temp)/720, up or down, at the turn from minute 719
\* to 720 and at the start of the next day from minute 1439 to 1440 as
\* everywhere else.
C25_NoJump ==
    [][ot_new_time' = (IF ot_new_time = -1 THEN 0 ELSE ot_new_time) + 1 =>
          Abs(ot_current_temp' - ot_current_temp) = max_temp - min_temp]_vars

\* the minute after the start of the second day, past both joints
C25_Witness ==
    /\ min_temp < max_temp
    /\ ot_new_time = 1441
    /\ ot_current_temp = 720 * min_temp + (max_temp - min_temp)

\* the smallest and the largest of a set of numbers that is not empty
C26_Smallest(S) == CHOOSE x \in S : \A y \in S : x <= y
C26_Largest(S) == CHOOSE x \in S : \A y \in S : x >= y

\* C26 (SpecDisplay): once the display model has been shown a Beehive,
\* min_hive_temp and max_hive_temp are the smallest and the largest hive
\* temperature shown; once it has been shown an outside temperature,
\* min_outside_temp and max_outside_temp are the smallest and the largest
\* outside temperature shown.
C26_BoundsAreExtremes ==
    /\ shown_hive_temps # {} =>
          /\ min_hive_temp = C26_Smallest(shown_hive_temps)
          /\ max_hive_temp = C26_Largest(shown_hive_temps)
    /\ shown_outside_temps # {} =>
          /\ min_outside_temp = C26_Smallest(shown_outside_temps)
          /\ max_outside_temp = C26_Largest(shown_outside_temps)

\* C27 (SpecCli): the steps the command-line driver has passed to
\* advance_and_wait, 100 in each iteration of its loop, never add up to more
\* than --max_steps.
C27_NeverPastMaxSteps == advanced <= max_steps

\* C21 (SpecColony): whenever the scheduler is about to deliver a time update
\* (every earlier notification is delivered), number_bees_buzzing and
\* get_number_bees_buzzing are the number of Bees whose is_buzzing is true,
\* number_bees_fanning and get_number_bees_fanning the number whose
\* is_fanning is true, and each Bee's flags are the classification of the
\* Beehive's current_temp against its thresholds.
C21_CountsAndFlagsCurrent ==
    Quiescent =>
        /\ number_bees_buzzing =
               Cardinality({g \in DOMAIN colony : colony[g].is_buzzing})
        /\ number_bees_fanning =
               Cardinality({g \in DOMAIN colony : colony[g].is_fanning})
        /\ get_number_bees_buzzing = number_bees_buzzing
        /\ get_number_bees_fanning = number_bees_fanning
        /\ \A g \in DOMAIN colony :
               <<colony[g].is_buzzing, colony[g].is_fanning>> =
                   Classify(current_temp, colony[g].buzz_temp, colony[g].fan_temp)

\* C21 as amended: the counters and the recounts are as stated; a Bee that
\* has taken a temperature from a beehive-changed notification has taken the
\* current one and its flags are the classification of current_temp; a Bee
\* that has taken none yet (current_temp has not changed since the Bee was
\* constructed) has both flags false, whatever current_temp is.
C21_CountsCurrentFlagsOnceTold ==
    Quiescent =>
        /\ number_bees = Cardinality(DOMAIN colony)
        /\ number_bees_buzzing =
               Cardinality({g \in DOMAIN colony : colony[g].is_buzzing})
        /\ number_bees_fanning =
               Cardinality({g \in DOMAIN colony : colony[g].is_fanning})
        /\ get_number_bees_buzzing = number_bees_buzzing
        /\ get_number_bees_fanning = number_bees_fanning
        /\ \A g \in DOMAIN colony :
               IF colony[g].seen = None
               THEN ~colony[g].is_buzzing /\ ~colony[g].is_fanning
               ELSE /\ colony[g].seen = Some(current_temp)
                    /\ <<colony[g].is_buzzing, colony[g].is_fanning>> =
                           Classify(current_temp, colony[g].buzz_temp,
                                    colony[g].fan_temp)

\* after the second time update: one Bee is buzzing, another one fanning,
\* and a Bee that was buzzing or fanning after the first no longer is
C21_Witness ==
    /\ Quiescent
    /\ now = 2
    /\ number_bees_buzzing + number_bees_fanning >= 1
    /\ \E g \in DOMAIN colony :
           /\ colony[g].seen = Some(current_temp)
           /\ ~colony[g].is_buzzing /\ ~colony[g].is_fanning
           /\ current_temp > 12 * Scale
           /\ colony[g].buzz_temp = 12 * Scale

\* C28: whatever the clicks on the start/pause button, the calls made on the
\* simulation alternate advance, pause, advance, ... beginning with advance;
\* the label is 'Start' before any call, 'Pause' exactly when the last call
\* was advance and 'Resume' exactly when it was pause; the label never
\* returns to 'Start', and _create_simulation runs exactly once, on the
\* first click and before the first advance.
C28_StartPauseAlternates ==
    /\ [](LET IsSimCall(c) == c \in {"advance", "pause"}
              IsCreate(c) == c = "_create_simulation"
              calls == SelectSeq(gui_calls, IsSimCall)
              clicked == SelectSeq(gui_calls, LAMBDA c : c # "shutdown")
          IN /\ \A i \in 1..Len(calls) :
                    calls[i] = IF i % 2 = 1 THEN "advance" ELSE "pause"
             /\ button_text = "Start" <=> calls = <<>>
             /\ button_text = "Pause" <=>
                    (calls # <<>> /\ calls[Len(calls)] = "advance")
             /\ button_text = "Resume" <=>
                    (calls # <<>> /\ calls[Len(calls)] = "pause")
             /\ Len(SelectSeq(gui_calls, IsCreate)) =
                    IF calls = <<>> THEN 0 ELSE 1
             /\ clicked # <<>> =>
                    /\ clicked[1] = "_create_simulation"
                    /\ clicked[2] = "advance")
    /\ [][button_text # "Start" => button_text' # "Start"]_vars

\* three clicks: started, paused and resumed
C28_Witness ==
    /\ button_text = "Pause"
    /\ SelectSeq(gui_calls, LAMBDA c : c # "shutdown") =
           <<"_create_simulation", "advance", "pause", "advance">>

\* C29: once the GUI has created the simulation from a 'Number bees' field
\* holding the number N, the simulation contains one Beehive, one
\* OutsideTemperature, one display model and N Bee entities, the entities
\* the command-line driver adds for --number_bees N.
C29_GuiAddsTheBees ==
    (button_text # "Start" /\ number_bees_edit # None) =>
        gui_entities = Entities(1, 1, 1, Value(number_bees_edit))
====
